---- MODULE Spec2Model ----
(***************************************************************************)
(* A model of the RxVoice voice-session orchestrator:                      *)
(*   - ConversationStateMachine (transition table, actions, context patch) *)
(*   - VoiceSessionManager (one session: audio intake, response playback,  *)
(*     processUserInput and the action handlers), with every await on an   *)
(*     external collaborator (STT, LLM, TTS, database) a point where the   *)
(*     handlers of other messages may run                                  *)
(*   - routes/prescriptions.js, POST /refill, which commits against the    *)
(*     same prescriptions table                                            *)
(*   - the session registry: endSession and the cleanup interval           *)
(*   - routes/prescriptions.js, GET /:patientId, which sorts the rows into *)
(*     available, noRefills and expired                                    *)
(* Eleven specifications share the variables: SpecSM (the state machine    *)
(* alone), Spec (the dialogue, one utterance at a time), SpecAudio and     *)
(* SpecConc (audio intake and playback, without and with overlapping       *)
(* handlers), SpecStore (concurrent POST /refill requests), SpecRegistry   *)
(* (two session ids started, ended and swept), SpecHistory (overlapping    *)
(* text inputs with a longer window of the history), SpecRecover (SpecAudio*)
(* with a caller and collaborators that keep going), SpecSpeak (SpecAudio  *)
(* with a synthesiser that answers), SpecOwner (messages for the session   *)
(* from a second connection) and SpecAvail (one prescription row put to    *)
(* the voice filter and to the REST categorisation).                       *)
(***************************************************************************)
EXTENDS Integers, Sequences, FiniteSets

VARIABLES
    smCur,      \* transition(): argument currentState
    smEvt,      \* transition(): argument event
    smCtx,      \* transition(): argument context
    smRes,      \* transition(): returned value, or NoResult before the call
    live,       \* the session id is a key of this.sessions
    ws,         \* session.ws: the connection the session was started on, 0
                \* before any start_session
    state,      \* session.state
    context,    \* session.context
    tasks,      \* message handlers suspended at an await, by slot
    micro,      \* handleAudioChunk suspended at `await this.handleInterrupt`
    db,         \* prescriptions.refills_remaining, by prescription id
    rest,       \* POST /refill requests, by slot
    outbox,     \* the notifications sent by the last step
    nUtt,       \* number of end_audio flushes started so far
    nChunks,    \* number of audio chunks received so far
    applied,    \* the latest flush whose transcript went through the state machine
    window,     \* turns of the history this instance of the model keeps
    now,        \* Date.now(), in periods of the cleanup interval
    lastActivity,   \* session.lastActivity
    peer,       \* a second session id: whether it is a key of this.sessions, and
                \* its lastActivity
    script,     \* utterances of the refill scenario delivered so far, -1 once the
                \* run has left the scenario
    listing     \* one prescription row put to the voice filter and to the REST
                \* categorisation: the row, the clock, and the two answers

smVars == <<smCur, smEvt, smCtx, smRes>>
sessVars == <<live, ws, state, context, tasks, micro, outbox, nUtt, nChunks, applied,
             script, window, now, lastActivity, peer>>
vars == <<smCur, smEvt, smCtx, smRes, live, ws, state, context, tasks, micro, db, rest,
          outbox, nUtt, nChunks, applied, script, window, now, lastActivity, peer,
          listing>>

(***************************************************************************)
(* ConversationStateMachine                                                *)
(***************************************************************************)
States ==
    {"greeting", "intent_recognition", "identity_verification", "date_of_birth",
     "prescription_review", "prescription_selection", "interaction_check",
     "confirmation", "completed", "error"}

transitions ==
    [greeting |->
        [refill |-> "identity_verification", question |-> "intent_recognition",
         greeting |-> "intent_recognition", unclear |-> "intent_recognition"],
     intent_recognition |->
        [refill |-> "identity_verification", question |-> "identity_verification",
         greeting |-> "identity_verification", unclear |-> "intent_recognition"],
     identity_verification |->
        [name_provided |-> "date_of_birth", unclear |-> "identity_verification",
         error |-> "error"],
     date_of_birth |->
        [dob_provided |-> "prescription_review", patient_verified |-> "prescription_review",
         patient_not_found |-> "error", unclear |-> "date_of_birth", error |-> "error"],
     prescription_review |->
        [prescriptions_found |-> "prescription_selection", no_prescriptions |-> "error",
         error |-> "error"],
     prescription_selection |->
        [prescription_selected |-> "interaction_check",
         unclear |-> "prescription_selection", no_refills |-> "error",
         expired |-> "error"],
     interaction_check |->
        [no_interactions |-> "confirmation", interactions_found |-> "error",
         check_complete |-> "confirmation"],
     confirmation |->
        [confirmed |-> "completed", cancelled |-> "greeting", error |-> "error"],
     completed |->
        [new_request |-> "greeting", goodbye |-> "completed"],
     error |->
        [retry |-> "greeting", new_request |-> "greeting", goodbye |-> "completed"]]

\* the intents the analyzeIntent prompt and basicIntentAnalysis name
ClassifierIntents ==
    {"refill", "question", "greeting", "confirmation", "cancellation", "unclear"}

TableEvents == UNION {DOMAIN transitions[s] : s \in States}

Events == TableEvents \cup ClassifierIntents

actionMap ==
    [k \in {<<"greeting", "identity_verification">>,
            <<"intent_recognition", "identity_verification">>,
            <<"identity_verification", "date_of_birth">>,
            <<"date_of_birth", "prescription_review">>,
            <<"prescription_review", "prescription_selection">>,
            <<"prescription_selection", "interaction_check">>,
            <<"interaction_check", "confirmation">>,
            <<"confirmation", "completed">>,
            <<"completed", "greeting">>,
            <<"error", "greeting">>} |->
        CASE k = <<"greeting", "identity_verification">> -> "request_name"
          [] k = <<"intent_recognition", "identity_verification">> -> "request_name"
          [] k = <<"identity_verification", "date_of_birth">> -> "request_dob"
          [] k = <<"date_of_birth", "prescription_review">> -> "verify_patient"
          [] k = <<"prescription_review", "prescription_selection">> -> "list_prescriptions"
          [] k = <<"prescription_selection", "interaction_check">> -> "check_interactions"
          [] k = <<"interaction_check", "confirmation">> -> "process_refill"
          [] k = <<"confirmation", "completed">> -> "complete_refill"
          [] k = <<"completed", "greeting">> -> "start_new_conversation"
          [] k = <<"error", "greeting">> -> "restart_conversation"]

getActionForTransition(fromState, toState) ==
    IF <<fromState, toState>> \in DOMAIN actionMap
    THEN actionMap[<<fromState, toState>>]
    ELSE "continue"

\* updateContext returning a context with a history of its own
updateContextFreshHistory(fromState, toState, ctx) == [ctx EXCEPT !.history = <<>>]

\* The context fields that the code only ever writes and that no property reads
\* (awaitingDOB, prescriptionsListed, prescriptionSelected,
\* interactionCheckComplete, refillDetails) are not part of the model's context:
\* the branches that set them leave the context as it is.
updateContext(fromState, toState, ctx) ==
    CASE toState = "prescription_review" ->
            [ctx EXCEPT !.patientVerified = TRUE]
      [] toState = "completed" ->
            [ctx EXCEPT !.refillComplete = TRUE]
      [] toState = "error" ->
            [ctx EXCEPT !.errorOccurred = TRUE, !.errorState = fromState]
      [] OTHER -> ctx

\* The fallback of transition() staying in the current state for every unmapped
\* event.
transitionStay(currentState, event, ctx) ==
    IF currentState \notin DOMAIN transitions
    THEN [state |-> "error", action |-> "error_no_transitions",
          hasContext |-> FALSE, context |-> ctx]
    ELSE IF event \notin DOMAIN transitions[currentState]
    THEN [state |-> currentState, action |-> "stay_or_error",
          hasContext |-> FALSE, context |-> ctx]
    ELSE [state |-> transitions[currentState][event],
          action |-> getActionForTransition(currentState, transitions[currentState][event]),
          hasContext |-> TRUE,
          context |-> updateContext(currentState, transitions[currentState][event], ctx)]

\* The fallback of transition() with the `unclear` exception dropped.
transitionNoUnclear(currentState, event, ctx) ==
    IF currentState \notin DOMAIN transitions
    THEN [state |-> "error", action |-> "error_no_transitions",
          hasContext |-> FALSE, context |-> ctx]
    ELSE IF event \notin DOMAIN transitions[currentState]
    THEN [state |-> "error", action |-> "stay_or_error",
          hasContext |-> FALSE, context |-> ctx]
    ELSE [state |-> transitions[currentState][event],
          action |-> getActionForTransition(currentState, transitions[currentState][event]),
          hasContext |-> TRUE,
          context |-> updateContext(currentState, transitions[currentState][event], ctx)]

\* transition(currentState, event, context).  The two early returns carry no
\* context: hasContext is FALSE and `context` is the argument unchanged, which is
\* what the caller's merge {...session.context, ...undefined} yields.
transition(currentState, event, ctx) ==
    IF currentState \notin DOMAIN transitions
    THEN [state |-> "error", action |-> "error_no_transitions",
          hasContext |-> FALSE, context |-> ctx]
    ELSE IF event \notin DOMAIN transitions[currentState]
    THEN [state |-> IF event = "unclear" THEN currentState ELSE "error",
          action |-> "stay_or_error", hasContext |-> FALSE, context |-> ctx]
    ELSE [state |-> transitions[currentState][event],
          action |-> getActionForTransition(currentState, transitions[currentState][event]),
          hasContext |-> TRUE,
          context |-> updateContext(currentState, transitions[currentState][event], ctx)]

\* isTerminalState counting ERROR as an end of the dialogue
isTerminalStateWithError(s) == s \in {"completed", "error"}

isTerminalState(s) == s = "completed"

(***************************************************************************)
(* Data of the session model                                               *)
(***************************************************************************)
\* prescriptions of the one stored patient, in ORDER BY medication_name order
RxIds == {1, 2}

\* what a caller says: a refill request, a full name, a date of birth, the name
\* of prescription 1 or 2, or something else
Utterances == {"refill_request", "full_name", "dob", "med1", "med2", "other"}

\* the context startSession builds; the fields the code adds later start
\* absent, written FALSE / "none" / 0 / {}
InitContext ==
    [patient |-> 0,                 \* 0: null, 1: the stored patient
     prescriptions |-> {},          \* {}: null (the code never stores an empty list)
     selectedPrescription |-> 0,    \* 0: null, else the prescription id
     audioBuffer |-> <<>>,
     isRecording |-> FALSE,
     isSpeaking |-> FALSE,
     history |-> <<>>,
     patientName |-> FALSE,
     patientVerified |-> FALSE,
     refillComplete |-> FALSE,
     errorOccurred |-> FALSE,
     errorState |-> "none",
     interactionWarning |-> FALSE]


\* one history entry; utt is the number of the end_audio flush a user turn was
\* transcribed from (0 for text input and for assistant turns)
Turn(role, msg, utt) == [role |-> role, msg |-> msg, utt |-> utt]

HistWindow == 1    \* turns of the history kept where the history is not the subject
HistDepth == 3     \* turns of the history kept where it is

\* history.push(turn).  The model keeps the last `window` turns: the code's
\* only reader of the history, buildPrompt, takes history.slice(-6).
Push(h, t) == IF Len(h) < window THEN Append(h, t) ELSE Append(Tail(h), t)

Idle ==
    [pc |-> "idle", kind |-> "none", utt |-> 0, input |-> "none", next |-> "none",
     rx |-> 0, audio |-> <<>>]

\* medication_name.includes(input) || input.includes(medication_name)
Matches(input, rx) ==
    \/ input = "med1" /\ rx = 1
    \/ input = "med2" /\ rx = 2

Min(S) == CHOOSE x \in S : \A y \in S : x <= y

\* expires_date > now, by prescription id
NotExpired(rx) == TRUE

(***************************************************************************)
(* VoiceSessionManager: the code of a handler between two awaits.  S is    *)
(* the handler's view: [state, context, db, task, out].                    *)
(***************************************************************************)
\* synthesizeAndSendAudio up to `await this.elevenlabs.synthesizeSpeech`;
\* next names the code that follows the call
synthesizeAndSendAudio(S, next) ==
    [S EXCEPT !.context.isSpeaking = TRUE,
              !.task.pc = "tts",
              !.task.next = next,
              !.out = @ \cup {"speaking_status_true"}]

sendResponse(S, msg, next) ==
    synthesizeAndSendAudio(
        [S EXCEPT !.context.history = Push(@, Turn("assistant", msg, 0)),
                  !.out = @ \cup {"transcript_assistant"}],
        next)

\* the handler returns to handleMessage; handleEndAudio runs its finally block,
\* startSession sends session_started
Return(S) ==
    CASE S.task.kind = "audio" ->
            [S EXCEPT !.context.audioBuffer = <<>>,
                      !.out = @ \cup {"recording_status_false"},
                      !.task = Idle]
      [] S.task.kind = "start" ->
            [S EXCEPT !.out = @ \cup {"session_started"}, !.task = Idle]
      [] OTHER -> [S EXCEPT !.task = Idle]

\* const transition = this.stateMachine.transition(session.state, event, session.context);
\* session.state = transition.state;      (the context patch is not merged here)
Advance(S, event) ==
    [S EXCEPT !.state = transition(S.state, event, S.context).state]

\* processRefill up to `await new Promise(... db.run(UPDATE ...))`
processRefill(S) ==
    IF S.context.selectedPrescription = 0
    THEN sendResponse(S, "refill_failed", "return")       \* prescription.id throws
    ELSE [S EXCEPT !.task.pc = "commit",
                   !.task.rx = S.context.selectedPrescription]

\* listPrescriptions running its query whether or not a patient is stored
listPrescriptionsAnyCaller(S) == [S EXCEPT !.task.pc = "db_list"]

\* listPrescriptions up to `await new Promise(... db.all(...))`
listPrescriptions(S) ==
    IF S.context.patient = 0
    THEN sendResponse(S, "list_error", "return")          \* patient.id throws
    ELSE [S EXCEPT !.task.pc = "db_list"]

\* checkInteractions up to `await checkDrugInteractions(...)`
checkInteractions(S, input) ==
    IF S.context.prescriptions = {}
    THEN sendResponse(S, "interaction_error", "check_complete")   \* null.find throws
    ELSE LET found == {rx \in S.context.prescriptions : Matches(input, rx)} IN
         IF found = {}
         THEN sendResponse(S, "no_match", "return")
         ELSE LET S1 == [S EXCEPT !.context.selectedPrescription = Min(found)] IN
              IF S1.context.patient = 0
              THEN sendResponse(S1, "interaction_error", "check_complete")
              ELSE [S1 EXCEPT !.task.pc = "interaction"]

executeAction(S, action, input) ==
    CASE action = "request_name" -> sendResponse(S, "request_name", "return")
      [] action = "request_dob" -> [S EXCEPT !.task.pc = "extract_name"]
      [] action = "verify_patient" -> [S EXCEPT !.task.pc = "extract_dob"]
      [] action = "list_prescriptions" -> listPrescriptions(S)
      [] action = "check_interactions" -> checkInteractions(S, input)
      [] action = "process_refill" -> processRefill(S)
      [] action = "complete_refill" -> sendResponse(S, "complete_refill", "return")
      [] OTHER -> [S EXCEPT !.task.pc = "gen"]     \* generateContextualResponse

\* processUserInput up to `await this.gemini.analyzeIntent(userInput)`
processUserInput(S, userInput, utt) ==
    [S EXCEPT !.context.history = Push(@, Turn("user", userInput, utt)),
              !.out = @ \cup {"transcript_user"},
              !.task.pc = "intent",
              !.task.input = userInput]

\* processUserInput without its try/catch: an answer that cannot be read throws
\* to handleMessage, whose catch sends the error notification
afterIntentUncaught(S, intent) ==
    LET tr == transition(S.state, intent, S.context)
        S1 == [S EXCEPT !.state = tr.state, !.context = tr.context]
    IN IF intent = "raise"
       THEN Return([S EXCEPT !.out = @ \cup {"error"}])
       ELSE executeAction(S1, tr.action, S.task.input)

\* processUserInput from the classifier's answer to the next await; "raise" is
\* an answer whose .intent cannot be read (the catch runs handleProcessingError)
afterIntent(S, intent) ==
    LET tr == transition(S.state, intent, S.context)
        S1 == [S EXCEPT !.state = tr.state, !.context = tr.context]
    IN IF intent = "raise"
       THEN sendResponse(S, "processing_error", "return")
       ELSE executeAction(S1, tr.action, S.task.input)

\* handleInterrupt with the assignment to isSpeaking left out
handleInterruptKeepsSpeaking(ctx) == ctx

\* handleInterrupt clearing isRecording together with isSpeaking
handleInterruptStopsRecording(ctx) ==
    [ctx EXCEPT !.isSpeaking = FALSE, !.isRecording = FALSE]

\* handleInterrupt: session.context.isSpeaking = false
handleInterrupt(ctx) == [ctx EXCEPT !.isSpeaking = FALSE]

\* synthesizeAndSendAudio without its finally block: a failed synthesis leaves
\* isSpeaking set and sends no speaking_status
afterTtsNoFinally(S, ok) ==
    LET S0 == IF ok
              THEN [S EXCEPT !.context.isSpeaking = FALSE,
                             !.out = @ \cup {"audio_response", "speaking_status_false"}]
              ELSE S
        nx == S.task.next
    IN CASE nx = "verified" -> listPrescriptions(Advance(S0, "patient_verified"))
         [] nx = "notfound" -> Return(Advance(S0, "patient_not_found"))
         [] nx = "interaction_warning" ->
                Return([S0 EXCEPT !.context.interactionWarning = TRUE,
                                  !.state = "error"])
         [] nx = "no_interactions" -> processRefill(Advance(S0, "no_interactions"))
         [] nx = "check_complete" -> processRefill(Advance(S0, "check_complete"))
         [] nx = "confirmed" -> Return(Advance(S0, "confirmed"))
         [] OTHER -> Return(S0)

\* the finally block of synthesizeAndSendAudio and the code after the call
afterTts(S, ok) ==
    LET S0 == [S EXCEPT !.context.isSpeaking = FALSE,
                        !.out = @ \cup (IF ok THEN {"audio_response"} ELSE {})
                                  \cup {"speaking_status_false"}]
        nx == S.task.next
    IN CASE nx = "verified" -> listPrescriptions(Advance(S0, "patient_verified"))
         [] nx = "notfound" -> Return(Advance(S0, "patient_not_found"))
         [] nx = "interaction_warning" ->
                Return([S0 EXCEPT !.context.interactionWarning = TRUE,
                                  !.state = "error"])
         [] nx = "no_interactions" -> processRefill(Advance(S0, "no_interactions"))
         [] nx = "check_complete" -> processRefill(Advance(S0, "check_complete"))
         [] nx = "confirmed" -> Return(Advance(S0, "confirmed"))
         [] OTHER -> Return(S0)


\* handleEndAudio passing an empty transcript on to processUserInput
afterSttNoEmptyCheck(S, r) ==
    CASE r = "error" -> sendResponse(S, "transcription_error", "return")
      [] OTHER -> processUserInput(S, r, S.task.utt)

\* the code that follows `await this.deepgram.transcribeAudio(...)` in
\* handleEndAudio; r is the transcript, "" or "error" (the call threw)
afterStt(S, r) ==
    CASE r = "error" -> sendResponse(S, "transcription_error", "return")
      [] r = "" -> sendResponse(S, "no_transcription", "return")
      [] OTHER -> processUserInput(S, r, S.task.utt)

\* requestDateOfBirth after `await this.gemini.extractPatientInfo(userInput)`
afterExtractName(S, named) ==
    IF named
    THEN sendResponse([S EXCEPT !.context.patientName = TRUE], "request_dob", "return")
    ELSE sendResponse(S, "name_unclear", "return")

\* verifyPatient after `await this.gemini.extractPatientInfo(userInput)`
afterExtractDob(S, hasName, hasDob) ==
    IF (hasName \/ S.context.patientName) /\ hasDob
    THEN [S EXCEPT !.task.pc = "db_patient"]
    ELSE sendResponse(S, "verify_incomplete", "return")

\* verifyPatient after the patients query; r is "hit", "miss" or "error"
afterDbPatient(S, r) ==
    CASE r = "hit" ->
            sendResponse([S EXCEPT !.context.patient = 1], "patient_found", "verified")
      [] r = "miss" -> sendResponse(S, "patient_not_found", "notfound")
      [] OTHER -> sendResponse(S, "verify_error", "return")

\* rx.refills_remaining > 0
RefillsLeft(n) == n > 0

\* listPrescriptions after the prescriptions query
afterDbList(S, ok) ==
    LET available == {rx \in RxIds : NotExpired(rx) /\ RefillsLeft(S.db[rx])} IN
    IF ~ok THEN sendResponse(S, "list_error", "return")
    ELSE IF available = {} THEN sendResponse(S, "no_prescriptions", "return")
    ELSE sendResponse([S EXCEPT !.context.prescriptions = available],
                      "prescription_list", "return")

\* checkInteractions going on to the refill whatever the check reported
afterInteractionIgnoresWarning(S, r) ==
    sendResponse(S, "interaction_clear", "no_interactions")

\* checkInteractions giving up when the check itself fails
afterInteractionFailClosed(S, r) ==
    CASE r = "interactions" -> sendResponse(S, "interaction_warning", "interaction_warning")
      [] r = "clear" -> sendResponse(S, "interaction_clear", "no_interactions")
      [] OTHER -> sendResponse(S, "interaction_error", "return")

\* checkInteractions after `await checkDrugInteractions(...)`; r is "clear",
\* "interactions" or "raise"
afterInteraction(S, r) ==
    CASE r = "interactions" -> sendResponse(S, "interaction_warning", "interaction_warning")
      [] r = "clear" -> sendResponse(S, "interaction_clear", "no_interactions")
      [] OTHER -> sendResponse(S, "interaction_error", "check_complete")

\* an UPDATE that takes two refills
decrementRefillByTwo(d, rx) == [d EXCEPT ![rx] = @ - 2]

\* UPDATE prescriptions SET refills_remaining = refills_remaining - 1 WHERE id = ?
decrementRefill(d, rx) == [d EXCEPT ![rx] = @ - 1]

\* processRefill returning without a word when the UPDATE fails
afterCommitSilentFailure(S, ok) ==
    IF ok
    THEN sendResponse([S EXCEPT !.db = decrementRefill(@, S.task.rx)],
                      "refill_confirmation", "confirmed")
    ELSE Return(S)

\* processRefill after the UPDATE
afterCommit(S, ok) ==
    IF ok
    THEN sendResponse([S EXCEPT !.db = decrementRefill(@, S.task.rx)],
                      "refill_confirmation", "confirmed")
    ELSE sendResponse(S, "refill_failed", "return")

\* generateContextualResponse after `await this.gemini.generateResponse(...)`;
\* ok: the model answered, else generateResponse returned its fallback text
afterGen(S, ok) ==
    sendResponse(S, IF ok THEN "generated" ELSE "generation_fallback", "return")


(***************************************************************************)
(* Bounds and data of the checked instances                                *)
(***************************************************************************)
MaxTasks == 2       \* handlers of one session suspended at the same time
MaxChunks == 2      \* audio chunks received
MaxUtt == 2         \* end_audio flushes that reach the transcriber
MaxOverdraw == 1    \* refills_remaining is followed down to -MaxOverdraw
MaxRest == 2        \* POST /refill requests in progress at the same time

Slots == 1..MaxTasks

RestSlots == 1..MaxRest

\* a request slot: the callback it waits for, the prescription it names, the
\* refills_remaining its SELECT returned, and the response of the last request
RestIdle == [pc |-> "idle", rx |-> 0, seen |-> 0, resp |-> "none"]

\* refills_remaining of the two prescriptions when the server starts: one refill
\* left, none left
SeedRefills == [rx \in RxIds |-> IF rx = 1 THEN 1 ELSE 0]

\* the utterances of the refill scenario, in order
ScriptUtterances == <<"refill_request", "full_name", "dob", "med1">>

Busy == {i \in Slots : tasks[i].pc # "idle"}

FreeSlot == Min(Slots \ Busy)

View(i) == [state |-> state, context |-> context, db |-> db, task |-> tasks[i],
            out |-> {}]

\* the handler's writes become the session's
Apply(i, S) ==
    /\ state' = S.state
    /\ context' = S.context
    /\ db' = S.db
    /\ tasks' = [tasks EXCEPT ![i] = S.task]
    /\ outbox' = S.out
    /\ UNCHANGED <<smVars, listing, window, ws, rest, live, micro, now, peer>>

\* the scenario position after a collaborator answered; ok: it did not fail
OnScript(ok) == IF ok THEN script ELSE -1

\* the scenario position after the caller said `text`
ScriptAfter(text) ==
    IF script \in 0..(Len(ScriptUtterances) - 1) /\ Busy = {}
       /\ text = ScriptUtterances[script + 1]
    THEN script + 1
    ELSE -1

\* no row has been put to the two filters
NoListing == [expires |-> 0, clock |-> 0, refills |-> 0, voice |-> "none", rest |-> "none"]

\* the second session id before it is started
NoPeer == [live |-> FALSE, lastActivity |-> 0]

NoResult == [state |-> "none", action |-> "none", hasContext |-> FALSE,
             context |-> InitContext]

Init ==
    /\ smCur = "greeting" /\ smEvt = "unclear" /\ smCtx = InitContext
    /\ smRes = NoResult
    /\ live = FALSE
    /\ state = "greeting"
    /\ context = InitContext
    /\ tasks = [i \in Slots |-> Idle]
    /\ micro = 0
    /\ db = SeedRefills
    /\ rest = [j \in RestSlots |-> RestIdle]
    /\ outbox = {}
    /\ nUtt = 0
    /\ nChunks = 0
    /\ applied = 0
    /\ now = 0
    /\ window = HistWindow
    /\ lastActivity = 0
    /\ peer = NoPeer
    /\ ws = 0
    /\ listing = NoListing
    /\ script = 0

(***************************************************************************)
(* Messages: the code of a handler from its start to its first await       *)
(***************************************************************************)
\* a message for the session is taken; serial: the caller sends it only once
\* the handlers of the earlier messages have returned
Arrives(serial) ==
    /\ live
    /\ IF serial THEN Busy = {} /\ micro = 0 ELSE Busy # Slots

\* the connections: the caller's and another client's
Conns == {1, 2}

\* startSession on connection c: the session object is built and stored under
\* the id, whatever the map held for it; no handler of an earlier session under
\* the id is still suspended
StartSessionOn(c) ==
    /\ Busy = {} /\ micro = 0
    /\ live' = TRUE
    /\ ws' = c
    /\ LET S == synthesizeAndSendAudio(
                    [state |-> "greeting", context |-> InitContext, db |-> db,
                     task |-> [Idle EXCEPT !.kind = "start"], out |-> {}],
                    "return")
       IN /\ state' = S.state
          /\ context' = S.context
          /\ tasks' = [tasks EXCEPT ![1] = S.task]
          /\ outbox' = S.out
    /\ lastActivity' = now
    /\ UNCHANGED <<smVars, listing, window, rest, micro, db, nUtt, nChunks, applied, script, now, peer>>

\* start_session from the caller, for an id that is not in the map
StartSession == ~live /\ StartSessionOn(1)

\* text_input
TextInput(text, serial) ==
    /\ Arrives(serial)
    /\ Apply(FreeSlot,
             processUserInput([View(FreeSlot) EXCEPT !.task.kind = "text"], text, 0))
    /\ lastActivity' = now
    /\ script' = ScriptAfter(text)
    /\ UNCHANGED <<nUtt, nChunks, applied>>

\* interrupt
Interrupt ==
    /\ live
    /\ context' = handleInterrupt(context)
    /\ outbox' = {"interrupted"}
    /\ script' = -1
    /\ UNCHANGED <<smVars, listing, window, ws, rest, now, peer, lastActivity, live, state, tasks, micro, db, nUtt, nChunks, applied>>

\* audio_chunk while the assistant speaks, up to `await this.handleInterrupt`
AudioChunkBargeIn ==
    /\ live /\ micro = 0 /\ nChunks < MaxChunks
    /\ context.isSpeaking
    /\ context' = handleInterrupt(context)
    /\ outbox' = {"interrupted"}
    /\ micro' = nChunks + 1
    /\ nChunks' = nChunks + 1
    /\ lastActivity' = now
    /\ script' = -1
    /\ UNCHANGED <<smVars, listing, window, ws, rest, now, peer, live, state, tasks, db, nUtt, applied>>

\* handleAudioChunk after `await this.handleInterrupt`
AudioChunkAppend ==
    /\ micro # 0
    /\ context' = [context EXCEPT !.audioBuffer = Append(@, micro),
                                  !.isRecording = TRUE]
    /\ outbox' = {"recording_status_true"}
    /\ micro' = 0
    /\ UNCHANGED <<smVars, listing, window, ws, rest, now, peer, lastActivity, live, state, tasks, db, nUtt, nChunks, applied, script>>

\* audio_chunk while the assistant does not speak
AudioChunk ==
    /\ live /\ nChunks < MaxChunks
    /\ ~context.isSpeaking
    /\ context' = [context EXCEPT !.audioBuffer = Append(@, nChunks + 1),
                                  !.isRecording = TRUE]
    /\ outbox' = {"recording_status_true"}
    /\ nChunks' = nChunks + 1
    /\ lastActivity' = now
    /\ script' = -1
    /\ UNCHANGED <<smVars, listing, window, ws, rest, now, peer, live, state, tasks, micro, db, nUtt, applied>>

\* end_audio with nothing buffered: the try block is skipped, finally runs
EndAudioEmpty ==
    /\ live
    /\ context.audioBuffer = <<>>
    /\ context' = [context EXCEPT !.isRecording = FALSE]
    /\ outbox' = {"recording_status_false"}
    /\ script' = -1
    /\ UNCHANGED <<smVars, listing, window, ws, rest, now, peer, lastActivity, live, state, tasks, micro, db, nUtt, nChunks, applied>>

\* end_audio with audio buffered, up to `await this.deepgram.transcribeAudio`;
\* task.audio is the buffer handed to the transcriber
EndAudio(serial) ==
    /\ Arrives(serial) /\ nUtt < MaxUtt
    /\ context.audioBuffer # <<>>
    /\ context' = [context EXCEPT !.isRecording = FALSE]
    /\ tasks' = [tasks EXCEPT ![FreeSlot] =
                    [Idle EXCEPT !.pc = "stt", !.kind = "audio", !.utt = nUtt + 1,
                                 !.audio = context.audioBuffer]]
    /\ outbox' = {"processing"}
    /\ nUtt' = nUtt + 1
    /\ script' = -1
    /\ UNCHANGED <<smVars, listing, window, ws, rest, now, peer, lastActivity, live, state, micro, db, nChunks, applied>>

(***************************************************************************)
(* Continuations: a collaborator answers and the suspended handler runs to *)
(* its next await or to its return                                         *)
(***************************************************************************)
Resumes(i, pc) == micro = 0 /\ tasks[i].pc = pc

\* the transcriber answers: a transcript, "" or "error" (it threw)
SttDone ==
    \E i \in Slots, r \in {"error", "", "other"} :
        /\ Resumes(i, "stt")
        /\ Apply(i, afterStt(View(i), r))
        /\ UNCHANGED <<lastActivity, nUtt, nChunks, applied, script>>

\* the classifier answers with one of `intents`
IntentDone(intents) ==
    \E i \in Slots, intent \in intents :
        /\ Resumes(i, "intent")
        /\ Apply(i, afterIntent(View(i), intent))
        /\ applied' = IF tasks[i].utt > applied THEN tasks[i].utt ELSE applied
        /\ script' = OnScript(/\ intent \in ClassifierIntents
                              /\ tasks[i].input = "refill_request" => intent = "refill")
        /\ UNCHANGED <<lastActivity, nUtt, nChunks>>

\* the classifier answers anything: its reply is parsed and not validated
IntentDoneAny == IntentDone(Events \cup {"raise"})

\* the classifier keeps to the intents its prompt names
IntentDoneContract == IntentDone(ClassifierIntents \cup {"raise"})

ExtractNameDone ==
    \E i \in Slots, named \in BOOLEAN :
        /\ Resumes(i, "extract_name")
        /\ Apply(i, afterExtractName(View(i), named))
        /\ script' = OnScript(named)
        /\ UNCHANGED <<lastActivity, nUtt, nChunks, applied>>

ExtractDobDone ==
    \E i \in Slots, hasName \in BOOLEAN, hasDob \in BOOLEAN :
        /\ Resumes(i, "extract_dob")
        /\ Apply(i, afterExtractDob(View(i), hasName, hasDob))
        /\ script' = OnScript(hasDob)
        /\ UNCHANGED <<lastActivity, nUtt, nChunks, applied>>

DbPatientDone ==
    \E i \in Slots, r \in {"hit", "miss", "error"} :
        /\ Resumes(i, "db_patient")
        /\ Apply(i, afterDbPatient(View(i), r))
        /\ script' = OnScript(r = "hit")
        /\ UNCHANGED <<lastActivity, nUtt, nChunks, applied>>

DbListDone ==
    \E i \in Slots, ok \in BOOLEAN :
        /\ Resumes(i, "db_list")
        /\ Apply(i, afterDbList(View(i), ok))
        /\ script' = OnScript(ok)
        /\ UNCHANGED <<lastActivity, nUtt, nChunks, applied>>

InteractionDone ==
    \E i \in Slots, r \in {"clear", "interactions", "raise"} :
        /\ Resumes(i, "interaction")
        /\ Apply(i, afterInteraction(View(i), r))
        /\ script' = OnScript(r = "clear")
        /\ UNCHANGED <<lastActivity, nUtt, nChunks, applied>>

\* the UPDATE ran (ok) or failed
CommitDone ==
    \E i \in Slots, ok \in BOOLEAN :
        /\ Resumes(i, "commit")
        /\ ok => db[tasks[i].rx] > -MaxOverdraw
        /\ Apply(i, afterCommit(View(i), ok))
        /\ script' = OnScript(ok)
        /\ UNCHANGED <<lastActivity, nUtt, nChunks, applied>>

GenDone ==
    \E i \in Slots, ok \in BOOLEAN :
        /\ Resumes(i, "gen")
        /\ Apply(i, afterGen(View(i), ok))
        /\ UNCHANGED <<lastActivity, nUtt, nChunks, applied, script>>

\* the synthesizer answers (ok) or throws
TtsDone ==
    \E i \in Slots, ok \in BOOLEAN :
        /\ Resumes(i, "tts")
        /\ Apply(i, afterTts(View(i), ok))
        /\ script' = OnScript(ok)
        /\ UNCHANGED <<lastActivity, nUtt, nChunks, applied>>

(***************************************************************************)
(* Specifications                                                          *)
(***************************************************************************)
\* one utterance at a time, as text
Say == \E text \in Utterances : TextInput(text, TRUE)

\* text input at any time
SayAnytime == TextInput("other", FALSE)

\* one utterance at a time, as audio
Flush == EndAudio(TRUE)

\* end_audio at any time
FlushAnytime == EndAudio(FALSE)

\* one utterance at a time, as text, in the audio specification
SayNext == TextInput("other", TRUE)

\* The dialogue: the caller speaks when the previous answer is complete, and
\* every collaborator answers anything it can.
Next ==
    \/ StartSession
    \/ Say
    \/ Interrupt
    \/ IntentDoneAny
    \/ ExtractNameDone
    \/ ExtractDobDone
    \/ DbPatientDone
    \/ DbListDone
    \/ InteractionDone
    \/ CommitDone
    \/ GenDone
    \/ TtsDone

Spec == Init /\ [][Next]_vars

\* Overlapping messages: audio, text and interrupts arrive while earlier
\* handlers are suspended; the classifier keeps to its documented intents.
NextConc ==
    \/ StartSession
    \/ SayAnytime
    \/ Interrupt
    \/ AudioChunk
    \/ AudioChunkBargeIn
    \/ AudioChunkAppend
    \/ EndAudioEmpty
    \/ FlushAnytime
    \/ SttDone
    \/ IntentDoneContract
    \/ GenDone
    \/ TtsDone

SpecConc == Init /\ [][NextConc]_vars

\* Audio intake and playback: chunks and interrupts arrive at any time, also
\* while an answer is synthesised; the caller ends an utterance or types one
\* when the previous answer is complete; the classifier keeps to its documented
\* intents.
NextAudio ==
    \/ StartSession
    \/ SayNext
    \/ Interrupt
    \/ AudioChunk
    \/ AudioChunkBargeIn
    \/ AudioChunkAppend
    \/ EndAudioEmpty
    \/ Flush
    \/ SttDone
    \/ IntentDoneContract
    \/ GenDone
    \/ TtsDone

SpecAudio == Init /\ [][NextAudio]_vars

(***************************************************************************)
(* routes/prescriptions.js: POST /refill                                   *)
(***************************************************************************)
Responds(j, resp) == rest' = [rest EXCEPT ![j] = [RestIdle EXCEPT !.resp = resp]]

\* the request arrives and issues its SELECT
RestRefill ==
    \E j \in RestSlots, rx \in RxIds :
        /\ rest[j].pc = "idle"
        /\ rest' = [rest EXCEPT ![j] = [RestIdle EXCEPT !.pc = "get", !.rx = rx]]
        /\ UNCHANGED <<smVars, listing, sessVars, db>>

\* the SELECT callback: error, no such row for the patient, expired, no
\* refills left, or on to the interaction check
RestGetDone ==
    \E j \in RestSlots, r \in {"row", "none", "error"} :
        /\ rest[j].pc = "get"
        /\ IF r = "error" THEN Responds(j, "database_error")
           ELSE IF r = "none" THEN Responds(j, "not_found")
           ELSE IF ~NotExpired(rest[j].rx) THEN Responds(j, "expired")
           ELSE IF db[rest[j].rx] <= 0 THEN Responds(j, "no_refills")
           ELSE rest' = [rest EXCEPT ![j].pc = "interaction",
                                     ![j].seen = db[rest[j].rx]]
        /\ UNCHANGED <<smVars, listing, sessVars, db>>

\* checkDrugInteractions answers; unless it reports an interaction the UPDATE
\* is issued
RestInteractionDone ==
    \E j \in RestSlots, r \in {"clear", "interactions", "raise"} :
        /\ rest[j].pc = "interaction"
        /\ IF r = "interactions" THEN Responds(j, "interaction")
           ELSE rest' = [rest EXCEPT ![j].pc = "update"]
        /\ UNCHANGED <<smVars, listing, sessVars, db>>

\* the UPDATE callback
RestUpdateDone ==
    \E j \in RestSlots, ok \in BOOLEAN :
        /\ rest[j].pc = "update"
        /\ db' = IF ok THEN decrementRefill(db, rest[j].rx) ELSE db
        /\ Responds(j, IF ok THEN "success" ELSE "update_failed")
        /\ UNCHANGED <<smVars, listing, sessVars>>

\* The store under concurrent POST /refill requests.
NextStore ==
    \/ RestRefill
    \/ RestGetDone
    \/ RestInteractionDone
    \/ RestUpdateDone

SpecStore == Init /\ [][NextStore]_vars

\* The state machine alone: transition() called once on any state, any event
\* and a context; the states and events include one value outside the table.
SMStates == States \cup {"no_such_state"}

SMEvents == Events \cup {"no_such_event"}

SMContexts ==
    {[InitContext EXCEPT !.patientName = n, !.errorOccurred = e] :
        n \in BOOLEAN, e \in BOOLEAN}

InitSM ==
    /\ smCur \in SMStates /\ smEvt \in SMEvents /\ smCtx \in SMContexts
    /\ smRes = NoResult
    /\ live = FALSE
    /\ state = "greeting"
    /\ context = InitContext
    /\ tasks = [i \in Slots |-> Idle]
    /\ micro = 0
    /\ db = SeedRefills
    /\ rest = [j \in RestSlots |-> RestIdle]
    /\ outbox = {}
    /\ nUtt = 0
    /\ nChunks = 0
    /\ applied = 0
    /\ now = 0
    /\ window = HistWindow
    /\ lastActivity = 0
    /\ peer = NoPeer
    /\ ws = 0
    /\ listing = NoListing
    /\ script = 0

SMTransition ==
    /\ smRes = NoResult
    /\ smRes' = transition(smCur, smEvt, smCtx)
    /\ UNCHANGED <<smCur, smEvt, smCtx, sessVars, db, rest, listing>>

NextSM == SMTransition

SpecSM == InitSM /\ [][NextSM]_vars

(***************************************************************************)
(* Properties of the state machine (under SpecSM)                          *)
(***************************************************************************)
SMCalled == smRes # NoResult /\ smCur \in States

SMUnmapped == SMCalled /\ smEvt \notin DOMAIN transitions[smCur]

\* C1: for every state of the ten-state set and every event, transition returns
\* a next state of the ten-state set; when the event has no entry for the state
\* the result is ERROR, except that an unmapped `unclear` returns the current
\* state.
TransitionTotal ==
    /\ SMCalled => smRes.state \in States
    /\ SMUnmapped =>
          smRes.state = IF smEvt = "unclear" THEN smCur ELSE "error"

\* transition was called with an `unclear` that PRESCRIPTION_REVIEW does not map
\* and stayed there
TransitionTotalWitness ==
    /\ SMUnmapped /\ smEvt = "unclear" /\ smCur = "prescription_review"
    /\ smRes.state = "prescription_review"

\* C2 as stated: for every state s of the ten-state set, transition(s, 'unclear')
\* returns s.
UnclearIdempotent ==
    SMCalled /\ smEvt = "unclear" => smRes.state = smCur

\* C2, amended: for every state s of the ten-state set other than GREETING,
\* transition(s, 'unclear') returns s; from GREETING it returns
\* INTENT_RECOGNITION.
UnclearIdempotentExceptGreeting ==
    SMCalled /\ smEvt = "unclear" =>
        smRes.state = IF smCur = "greeting" THEN "intent_recognition" ELSE smCur

\* transition was called with `unclear` in GREETING, where the table maps it
UnclearIdempotentWitness ==
    /\ SMCalled /\ smEvt = "unclear" /\ smCur = "greeting"
    /\ smRes.state = "intent_recognition"

(***************************************************************************)
(* Properties of the store (under SpecStore)                               *)
(***************************************************************************)
\* C6 as stated: whatever the sequence or interleaving of refill commits
\* against a prescription, a commit attempted when refills_remaining is already
\* <= 0 is refused, so refills_remaining never becomes negative.
RefillsNeverNegative == \A rx \in RxIds : db[rx] >= 0

(***************************************************************************)
(* Properties of the dialogue (under Spec)                                 *)
(***************************************************************************)
LastTurn == context.history[Len(context.history)]

RefusedCommitFails ==
    [][\A i \in Slots :
          (tasks[i].pc = "commit" /\ tasks'[i].pc # "commit"
           /\ db[tasks[i].rx] <= 0)
          => (db' = db /\ LastTurn'.msg # "refill_confirmation")]_vars

\* C10 as stated: in a fresh session, once the caller's four utterances (refill
\* request, full name, date of birth, name of a prescription with refills left)
\* have been handled with no collaborator failing, the final assistant turn is
\* the refill confirmation and the prescription's refills_remaining is one less.
EndToEndRefill ==
    (script = Len(ScriptUtterances) /\ Busy = {}) =>
        (LastTurn.msg = "refill_confirmation" /\ db[1] = SeedRefills[1] - 1)

(***************************************************************************)
(* Properties of audio intake and playback (under SpecAudio and SpecConc)   *)
(***************************************************************************)
\* C4: whenever an audio chunk is delivered while isSpeaking is true,
\* isSpeaking is set to false and `interrupted` is sent before the chunk is
\* concatenated to the audio buffer; no chunk is appended while isSpeaking is
\* true.
BargeInBeforeAppend ==
    [][/\ (context.isSpeaking /\ nChunks' # nChunks) =>
              /\ ~context'.isSpeaking
              /\ "interrupted" \in outbox'
              /\ context'.audioBuffer = context.audioBuffer
       /\ Len(context'.audioBuffer) > Len(context.audioBuffer) =>
              ~context.isSpeaking]_vars

\* a chunk arrived during playback: playback is stopped, `interrupted` is sent
\* and the chunk is still to be appended
BargeInWitness ==
    /\ micro # 0 /\ ~context.isSpeaking /\ "interrupted" \in outbox
    /\ \E i \in Slots : tasks[i].pc = "tts"

\* C5 as stated: isRecording and isSpeaking are never both true.
FlagsExclusive == ~(context.isRecording /\ context.isSpeaking)

\* C8 as stated: the transcript of a flush is not applied to the history once
\* the transcript of a later flush has been applied.
StaleDropped ==
    [][\A i \in Slots :
          (tasks[i].pc = "stt" /\ tasks'[i].pc = "intent") => tasks[i].utt > applied]_vars

\* C9 as stated: the handlers of a session's messages never interleave: at most
\* one of them has started and not finished.
HandlersSerialized == Cardinality(Busy) <= 1

(***************************************************************************)
(* More properties of the dialogue (under Spec)                            *)
(***************************************************************************)
\* C11 as stated: in a session in which the name and date of birth matched no
\* stored patient and the assistant signalled not-found, context.patientVerified
\* is not true (and context.patient is null).
NotFoundNeverVerified ==
    (context.history # <<>> /\ LastTurn.msg = "patient_not_found"
     /\ context.patient = 0)
    => ~context.patientVerified

\* C12 as stated: a prescription with no refills remaining (or expired) is
\* never chosen as the selected prescription: whenever check_interactions
\* selects a prescription, the store holds refills for it and it is unexpired.
SelectsOnlyEligible ==
    [][\A i \in Slots :
          (tasks[i].pc = "intent" /\ tasks'[i].pc = "interaction")
          => /\ RefillsLeft(db[context'.selectedPrescription])
             /\ NotExpired(context'.selectedPrescription)]_vars

\* C13 as stated, at the end of a listing: when the assistant has just told
\* the caller the result of a fetch, a non-null context.selectedPrescription is
\* a member of the eligible list that fetch returned (the empty list when it
\* found nothing, context.prescriptions when it found some).
SelectedInLastFetched ==
    (context.history # <<>> /\ context.selectedPrescription # 0)
    => /\ LastTurn.msg # "no_prescriptions"
       /\ LastTurn.msg = "prescription_list"
          => context.selectedPrescription \in context.prescriptions

(***************************************************************************)
(* Properties of playback (under SpecAudio and SpecConc)                   *)
(***************************************************************************)
\* the handlers suspended at `await this.elevenlabs.synthesizeSpeech`
Synthesising == {i \in Slots : tasks[i].pc = "tts"}

\* C15 as stated: once the turn being synthesised has been interrupted (the
\* handler still waits for the synthesizer and isSpeaking has been cleared), no
\* audio_response is sent for it when its handler resumes.
InterruptCancelsSynthesis ==
    [][\A i \in Slots :
          (i \in Synthesising /\ ~context.isSpeaking /\ tasks'[i] # tasks[i])
          => "audio_response" \notin outbox']_vars

\* C16 as stated: at most one synthesis of the session is in flight, and
\* isSpeaking is true exactly while one is.
OneActiveResponse ==
    /\ Cardinality(Synthesising) <= 1
    /\ context.isSpeaking <=> Synthesising # {}

\* C17 as stated: when startSession has completed (session_started is sent) the
\* session is in GREETING with no patient, no prescriptions, no selected
\* prescription, an empty buffer, both flags false and a history whose only
\* turn is the assistant's greeting.
StartedSessionShape ==
    "session_started" \in outbox
    => /\ live
       /\ state = "greeting"
       /\ context.patient = 0
       /\ context.prescriptions = {}
       /\ context.selectedPrescription = 0
       /\ context.audioBuffer = <<>>
       /\ ~context.isRecording /\ ~context.isSpeaking
       /\ context.history = <<Turn("assistant", "greeting", 0)>>

\* C20 as stated: end_audio on an empty buffer appends the "didn't catch that"
\* assistant turn, starts no transcription and leaves the dialogue state as it is.
EmptyFlushReprompts ==
    [][EndAudioEmpty
       => /\ "transcript_assistant" \in outbox'
          /\ context'.history # <<>>
          /\ context'.history[Len(context'.history)].msg = "no_transcription"
          /\ \A i \in Slots : tasks'[i].pc = "stt" => tasks[i].pc = "stt"
          /\ state' = state]_vars

(***************************************************************************)
(* The registry: this.sessions, endSession and the cleanup interval.  The  *)
(* first session id is the session modelled above; the second id (peer) is *)
(* followed only as a registry entry.                                      *)
(***************************************************************************)
sessionTimeout == 2     \* this.sessionTimeout, in periods of the cleanup interval
MaxClock == 3           \* periods of the cleanup interval followed

\* the session object of the first id and the handlers that hold it
sessionObject ==
    <<ws, state, context, tasks, micro, nUtt, nChunks, applied, script, lastActivity>>

\* endSession sending session_ended and leaving the entry in the map
EndSessionKeepsEntry ==
    /\ live
    /\ outbox' = {"session_ended"}
    /\ UNCHANGED <<smVars, listing, window, ws, db, rest, sessionObject, now, peer, live>>

\* end_session for the first id, present in the map; the handlers suspended on
\* the session object go on
EndSession ==
    /\ live
    /\ live' = FALSE
    /\ outbox' = {"session_ended"}
    /\ UNCHANGED <<smVars, listing, window, ws, db, rest, sessionObject, now, peer>>

\* audio_chunk, end_audio or text_input carrying an id that is not in the map:
\* the handler throws 'Session not found' and handleMessage sends the error
SessionNotFound ==
    /\ ~live \/ ~peer.live
    /\ outbox' = {"error"}
    /\ UNCHANGED <<smVars, listing, window, ws, db, rest, sessionObject, now, peer, live>>

\* interrupt carrying an id that is not in the map: handleInterrupt returns
\* at once and sends nothing
InterruptAbsent ==
    /\ ~live \/ ~peer.live
    /\ outbox' = {}
    /\ UNCHANGED <<smVars, listing, window, ws, db, rest, sessionObject, now, peer, live>>

\* start_session for the second id
PeerStart ==
    /\ ~peer.live
    /\ peer' = [live |-> TRUE, lastActivity |-> now]
    /\ outbox' = {"peer_session_started"}
    /\ UNCHANGED <<smVars, listing, window, ws, db, rest, sessionObject, now, live>>

\* audio_chunk or text_input for the second id
PeerActivity ==
    /\ peer.live
    /\ peer' = [peer EXCEPT !.lastActivity = now]
    /\ outbox' = {"peer_activity"}
    /\ UNCHANGED <<smVars, listing, window, ws, db, rest, sessionObject, now, live>>

\* end_session for the second id
PeerEnd ==
    /\ peer.live
    /\ peer' = [peer EXCEPT !.live = FALSE]
    /\ outbox' = {"peer_session_ended"}
    /\ UNCHANGED <<smVars, listing, window, ws, db, rest, sessionObject, now, live>>

\* a period of the cleanup interval passes
Tick ==
    /\ now < MaxClock
    /\ now' = now + 1
    /\ outbox' = {}
    /\ UNCHANGED <<smVars, listing, window, ws, db, rest, sessionObject, peer, live>>

\* now - session.lastActivity > this.sessionTimeout
timedOut(last) == now - last > sessionTimeout

\* the callback of the cleanup interval: it deletes and logs, and sends nothing
Sweep ==
    /\ live' = (live /\ ~timedOut(lastActivity))
    /\ peer' = [peer EXCEPT !.live = @ /\ ~timedOut(peer.lastActivity)]
    /\ outbox' = {}
    /\ UNCHANGED <<smVars, listing, window, ws, db, rest, sessionObject, now>>

\* Two session ids: sessions are started, used, ended and swept while time
\* passes; messages also carry ids that are not in the map.
NextRegistry ==
    \/ StartSession
    \/ SayNext
    \/ Interrupt
    \/ AudioChunk
    \/ AudioChunkBargeIn
    \/ AudioChunkAppend
    \/ IntentDoneContract
    \/ GenDone
    \/ TtsDone
    \/ EndSession
    \/ SessionNotFound
    \/ InterruptAbsent
    \/ PeerStart
    \/ PeerActivity
    \/ PeerEnd
    \/ Tick
    \/ Sweep

SpecRegistry == Init /\ [][NextRegistry]_vars

(***************************************************************************)
(* Properties of the registry (under SpecRegistry)                         *)
(***************************************************************************)
\* C18: endSession removes the session and sends session_ended; a message
\* carrying an id that is not in the map yields the error notification and
\* leaves the map and both sessions as they are; and a step that takes a chunk
\* or starts a handler is a step of a session that is in the map.
EndedSessionGone ==
    [][/\ EndSession => (~live' /\ "session_ended" \in outbox')
       /\ SessionNotFound
          => /\ "error" \in outbox'
             /\ live' = live /\ peer' = peer
             /\ UNCHANGED sessionObject
       /\ (\/ Cardinality(Busy') > Cardinality(Busy)
           \/ micro = 0 /\ Len(context'.audioBuffer) > Len(context.audioBuffer)
           \/ micro = 0 /\ micro' # 0)
          => live']_vars

\* an ended session that had a turn in its history, a message for its id
\* answered by the error, and the other session in the map
EndedSessionGoneWitness ==
    /\ ~live /\ context.history # <<>>
    /\ "error" \in outbox
    /\ peer.live

\* C19 as stated: a run of the sweep removes exactly the sessions whose
\* now - lastActivity exceeds the timeout, leaves the others as they are, and
\* sends a session-timeout notification for each session it removes.
SweepEvictsAndNotifies ==
    [][Sweep
       => /\ live' = (live /\ ~(now - lastActivity > sessionTimeout))
          /\ peer'.live = (peer.live /\ ~(now - peer.lastActivity > sessionTimeout))
          /\ peer'.lastActivity = peer.lastActivity
          /\ UNCHANGED sessionObject
          /\ (live /\ ~live') => "session_timeout" \in outbox'
          /\ (peer.live /\ ~peer'.live) => "peer_session_timeout" \in outbox']_vars

(***************************************************************************)
(* Failures of the collaborators (under Spec)                              *)
(***************************************************************************)
\* a collaborator fails: the transcriber throws, the classifier's answer cannot
\* be read, the generator falls back, the synthesizer throws, the interaction
\* check throws, or a database call errors
CollaboratorFails ==
    \E i \in Slots :
        \/ Resumes(i, "stt") /\ Apply(i, afterStt(View(i), "error"))
        \/ Resumes(i, "intent") /\ Apply(i, afterIntent(View(i), "raise"))
        \/ Resumes(i, "gen") /\ Apply(i, afterGen(View(i), FALSE))
        \/ Resumes(i, "tts") /\ Apply(i, afterTts(View(i), FALSE))
        \/ Resumes(i, "interaction") /\ Apply(i, afterInteraction(View(i), "raise"))
        \/ Resumes(i, "db_patient") /\ Apply(i, afterDbPatient(View(i), "error"))
        \/ Resumes(i, "db_list") /\ Apply(i, afterDbList(View(i), FALSE))
        \/ Resumes(i, "commit") /\ Apply(i, afterCommit(View(i), FALSE))

\* the assistant turns that answer a failure
FailureTurns ==
    {"transcription_error", "processing_error", "generation_fallback",
     "interaction_error", "verify_error", "list_error", "refill_failed"}

\* the awaits of a handler
AwaitPoints ==
    {"stt", "intent", "extract_name", "extract_dob", "db_patient", "db_list",
     "interaction", "commit", "gen", "tts"}

\* C14: when a collaborator fails, the failure is answered inside the handler:
\* no error reaches handleMessage's catch (so none leaves handleMessage), the
\* session stays in the registry, and the handler has returned or goes on to
\* one of its awaits, from where it takes the session's next event.
FailureContained ==
    [][CollaboratorFails
       => /\ live'
          /\ "error" \notin outbox'
          /\ \A i \in Slots : tasks'[i].pc \in AwaitPoints \cup {"idle"}]_vars

\* a failure has been answered with its assistant turn, the handler has
\* returned, and the session is in the registry and takes the next utterance
FailureContainedWitness ==
    /\ live /\ Busy = {}
    /\ context.history # <<>> /\ LastTurn.msg \in FailureTurns
    /\ ENABLED Say

(***************************************************************************)
(* End of utterance (under SpecAudio)                                      *)
(***************************************************************************)
\* the re-prompts of handleTranscriptionError and handleNoTranscription
Reprompts == {"transcription_error", "no_transcription"}

\* C21: when the transcriber fails or returns an empty transcript, the step
\* appends one assistant re-prompt turn and no user turn and leaves the dialogue
\* state as it is; the handler then appends nothing more, and when it returns
\* the audio buffer is empty.
SttFailureReprompts ==
    [][\A i \in Slots :
          /\ (\E r \in {"error", ""} :
                  Resumes(i, "stt") /\ Apply(i, afterStt(View(i), r)))
             => /\ \E m \in Reprompts :
                      context'.history = Push(context.history, Turn("assistant", m, 0))
                /\ "transcript_assistant" \in outbox'
                /\ "transcript_user" \notin outbox'
                /\ state' = state
                /\ tasks'[i].pc = "tts" /\ tasks'[i].next = "return"
          /\ (tasks[i].kind = "audio" /\ tasks[i].pc = "tts" /\ tasks'[i] # tasks[i])
             => /\ context'.history = context.history
                /\ state' = state
                /\ tasks'[i].pc = "idle"
                /\ context'.audioBuffer = <<>>]_vars

\* a flush whose transcription failed or was empty has been answered: the
\* re-prompt is the last turn, the handler has returned and the buffer is empty
SttFailureRepromptsWitness ==
    /\ Busy = {} /\ nUtt > 0
    /\ context.history # <<>> /\ LastTurn.msg \in Reprompts
    /\ "recording_status_false" \in outbox
    /\ context.audioBuffer = <<>>

(***************************************************************************)
(* Interrupts (under SpecRegistry)                                         *)
(***************************************************************************)
\* C22: handleInterrupt, called for an interrupt message or by handleAudioChunk
\* on a barge-in, clears isSpeaking and sends `interrupted` and leaves the
\* dialogue state, the history, the audio buffer, isRecording, the patient, the
\* prescriptions, the selected prescription and the registry as they are; for
\* an id that is not in the registry it sends nothing and changes nothing.
InterruptFrame ==
    [][/\ (Interrupt \/ AudioChunkBargeIn)
          => /\ ~context'.isSpeaking
             /\ "interrupted" \in outbox'
             /\ context' = [context EXCEPT !.isSpeaking = FALSE]
             /\ state' = state
             /\ live' = live /\ peer' = peer
       /\ InterruptAbsent
          => /\ outbox' = {}
             /\ UNCHANGED <<sessionObject, live, peer>>]_vars

\* an interrupt message has stopped an answer of a session that has a history
\* and a buffered chunk
InterruptFrameWitness ==
    /\ "interrupted" \in outbox /\ micro = 0
    /\ Synthesising # {} /\ ~context.isSpeaking
    /\ context.history # <<>> /\ context.audioBuffer # <<>>

(***************************************************************************)
(* The history (under SpecHistory)                                         *)
(***************************************************************************)
InitHistory ==
    /\ smCur = "greeting" /\ smEvt = "unclear" /\ smCtx = InitContext
    /\ smRes = NoResult
    /\ live = FALSE
    /\ state = "greeting"
    /\ context = InitContext
    /\ tasks = [i \in Slots |-> Idle]
    /\ micro = 0
    /\ db = SeedRefills
    /\ rest = [j \in RestSlots |-> RestIdle]
    /\ outbox = {}
    /\ nUtt = 0
    /\ nChunks = 0
    /\ applied = 0
    /\ now = 0
    /\ window = HistDepth
    /\ lastActivity = 0
    /\ peer = NoPeer
    /\ ws = 0
    /\ listing = NoListing
    /\ script = 0

\* Overlapping text inputs and interrupts, with the last HistDepth turns of the
\* history kept: every handler pushes the caller's turn, merges the context the
\* state machine returns and pushes its answer while other handlers do the same.
NextHistory ==
    \/ StartSession
    \/ SayAnytime
    \/ Interrupt
    \/ IntentDoneContract
    \/ GenDone
    \/ TtsDone

SpecHistory == InitHistory /\ [][NextHistory]_vars

\* h2 is h with one turn pushed
IsPush(h, h2) == h2 # <<>> /\ h2 = Push(h, h2[Len(h2)])

\* C23: the history of a live session only grows at its end: a step leaves it
\* as it is or pushes one turn, so every turn keeps its position, role and text
\* and the earlier history is a prefix of the later one (as far as the turns
\* kept by the model reach).
HistoryAppendOnly ==
    [][(live /\ live')
       => \/ context'.history = context.history
          \/ IsPush(context.history, context'.history)]_vars

\* a history of three turns, written by two handlers that overlapped
HistoryAppendOnlyWitness ==
    /\ Len(context.history) = HistDepth
    /\ Cardinality(Busy) > 1

(***************************************************************************)
(* Leaving ERROR (under SpecRecover)                                       *)
(***************************************************************************)
\* The dialogue of SpecAudio with a caller who keeps talking and collaborators
\* that keep answering: every utterance is classified, and the classifier gives
\* each of its intents again and again.
SpecRecover ==
    /\ Init /\ [][NextAudio]_vars
    /\ WF_vars(StartSession) /\ WF_vars(SayNext)
    /\ WF_vars(AudioChunkAppend)
    /\ WF_vars(SttDone) /\ WF_vars(GenDone) /\ WF_vars(TtsDone)
    /\ \A intent \in ClassifierIntents \cup {"raise"} : SF_vars(IntentDone({intent}))

\* C24 as stated, for a caller who tries every input: a session in ERROR gets
\* back to GREETING.
ErrorRecovers == (state = "error") ~> (state = "greeting")

(***************************************************************************)
(* The interaction check (under Spec)                                      *)
(***************************************************************************)
\* C25: when the interaction check reports interactions, the handler says the
\* warning (one assistant turn, its transcript sent) and goes on to nothing but
\* the speech; when the speech is over it stores the warning, sets the state
\* to ERROR and ends.  Neither step writes the prescriptions table, and the
\* handler never reaches the UPDATE of process_refill.
InteractionStopsRefill ==
    [][\A i \in Slots :
          /\ (Resumes(i, "interaction")
                /\ Apply(i, afterInteraction(View(i), "interactions")))
             => /\ context'.history =
                      Push(context.history, Turn("assistant", "interaction_warning", 0))
                /\ "transcript_assistant" \in outbox'
                /\ tasks'[i].pc = "tts" /\ tasks'[i].next = "interaction_warning"
                /\ db' = db
          /\ (tasks[i].pc = "tts" /\ tasks[i].next = "interaction_warning"
                /\ tasks'[i] # tasks[i])
             => /\ state' = "error"
                /\ context'.interactionWarning
                /\ tasks'[i].pc = "idle"
                /\ context'.history = context.history
                /\ db' = db]_vars

InteractionStopsRefillWitness ==
    /\ Busy = {}
    /\ state = "error"
    /\ context.interactionWarning
    /\ context.selectedPrescription # 0
    /\ LastTurn.msg = "interaction_warning"
    /\ RefillsLeft(db[context.selectedPrescription])

\* C26: when the interaction check raises for a matched prescription, the
\* handler says so and goes on (state INTERACTION_CHECK, table untouched); when
\* that speech is over the state is CONFIRMATION and the UPDATE for the matched
\* prescription is issued; when the UPDATE succeeds the row has one refill
\* less and the confirmation is said; when that speech is over the state is
\* COMPLETED and the handler ends.
FailOpenRefills ==
    [][\A i \in Slots :
          /\ (Resumes(i, "interaction")
                /\ Apply(i, afterInteraction(View(i), "raise")))
             => /\ context.selectedPrescription # 0
                /\ state' = "interaction_check"
                /\ context'.history =
                      Push(context.history, Turn("assistant", "interaction_error", 0))
                /\ tasks'[i].pc = "tts" /\ tasks'[i].next = "check_complete"
                /\ db' = db
          /\ (tasks[i].pc = "tts" /\ tasks[i].next = "check_complete"
                /\ context.selectedPrescription # 0
                /\ tasks'[i] # tasks[i])
             => /\ state' = "confirmation"
                /\ tasks'[i].pc = "commit"
                /\ tasks'[i].rx = context.selectedPrescription
                /\ db' = db
          /\ (Resumes(i, "commit") /\ Apply(i, afterCommit(View(i), TRUE)))
             => /\ db' = [db EXCEPT ![tasks[i].rx] = db[tasks[i].rx] - 1]
                /\ state' = state
                /\ tasks'[i].pc = "tts" /\ tasks'[i].next = "confirmed"
          /\ (tasks[i].pc = "tts" /\ tasks[i].next = "confirmed"
                /\ tasks'[i] # tasks[i])
             => /\ state' = "completed"
                /\ tasks'[i].pc = "idle"
                /\ db' = db]_vars

FailOpenRefillsWitness ==
    \E i \in Slots :
        /\ tasks[i].pc = "commit"
        /\ tasks[i].rx = context.selectedPrescription
        /\ context.patient # 0
        /\ context.selectedPrescription \in context.prescriptions
        /\ LastTurn.msg = "interaction_error"
        /\ state = "confirmation"

(***************************************************************************)
(* Identity verification and selection (under Spec)                        *)
(***************************************************************************)
\* C27 as stated: the step of verifyPatient that follows the "found your
\* account" speech (a hit: the patient is stored) leaves the dialogue on the
\* review/selection path.
HitStaysOnPath ==
    [][\A i \in Slots :
          (tasks[i].pc = "tts" /\ tasks[i].next = "verified" /\ tasks'[i] # tasks[i])
          => /\ context'.patient # 0
             /\ state' \in {"prescription_review", "prescription_selection"}]_vars

\* C28 as stated: after checkInteractions answered that it did not find the
\* medication, the dialogue state is PRESCRIPTION_SELECTION and the selected
\* prescription is what it was.
NoMatchStaysInSelection ==
    [][(/\ context'.history # context.history
        /\ context'.history # <<>>
        /\ context'.history[Len(context'.history)].msg = "no_match")
       => /\ state' = "prescription_selection"
          /\ context'.selectedPrescription = context.selectedPrescription]_vars

\* C29 as stated: request_dob runs only on the way from IDENTITY_VERIFICATION
\* and verify_patient only on the way from DATE_OF_BIRTH, so a turn that ends
\* with a re-prompt for the name leaves the state IDENTITY_VERIFICATION, and one
\* that ends with a re-prompt for the complete identity leaves it DATE_OF_BIRTH.
UnparsedIdentityKeepsState ==
    [][\A i \in Slots :
          /\ (Resumes(i, "extract_name")
                /\ Apply(i, afterExtractName(View(i), FALSE)))
             => state' = "identity_verification"
          /\ (\E hasName, hasDob \in BOOLEAN :
                /\ ~((hasName \/ context.patientName) /\ hasDob)
                /\ Resumes(i, "extract_dob")
                /\ Apply(i, afterExtractDob(View(i), hasName, hasDob)))
             => state' = "date_of_birth"]_vars

(***************************************************************************)
(* The exits of ERROR and COMPLETED (under SpecSM)                         *)
(***************************************************************************)
\* C30: from ERROR, retry and new_request lead to GREETING and goodbye to
\* COMPLETED; from COMPLETED, new_request leads to GREETING; isTerminalState
\* is true of COMPLETED and of no other state, before or after a transition.
ErrorAndCompletedExits ==
    SMCalled =>
        /\ (smCur = "error" /\ smEvt \in {"retry", "new_request"})
              => smRes.state = "greeting"
        /\ (smCur = "error" /\ smEvt = "goodbye") => smRes.state = "completed"
        /\ (smCur = "completed" /\ smEvt = "new_request") => smRes.state = "greeting"
        /\ isTerminalState(smCur) <=> smCur = "completed"
        /\ isTerminalState(smRes.state) <=> smRes.state = "completed"

\* transition was called in ERROR with retry and answered GREETING; neither
\* state is terminal
ErrorAndCompletedExitsWitness ==
    /\ SMCalled /\ smCur = "error" /\ smEvt = "retry"
    /\ smRes.state = "greeting"
    /\ ~isTerminalState(smCur) /\ ~isTerminalState(smRes.state)

(***************************************************************************)
(* What the context records of ERROR and COMPLETED                         *)
(***************************************************************************)
\* C31 as stated: every step that takes the dialogue state to ERROR leaves
\* errorOccurred set and errorState equal to the state it came from.
ErrorRecordsOrigin ==
    [][(state # "error" /\ state' = "error")
       => /\ context'.errorOccurred
          /\ context'.errorState = state]_vars

\* C32 as stated: in COMPLETED the context has refillComplete set and the
\* session has committed a refill (the table differs from its seed, which in
\* Spec only the session's UPDATE changes); refillComplete is set only in a
\* session that has committed a refill.
CompletedMarksClosed ==
    /\ state = "completed" => context.refillComplete /\ db # SeedRefills
    /\ context.refillComplete => db # SeedRefills

(***************************************************************************)
(* Accepted audio (under SpecAudio)                                        *)
(***************************************************************************)
Chunks(b) == {b[k] : k \in 1..Len(b)}

\* C33 as stated: the return of handleEndAudio removes from the buffer only
\* chunks that were handed to the transcriber, so that every accepted chunk
\* is transcribed; and no two requests in flight carry the same chunk.
NoAudioLost ==
    [][/\ \A i \in Slots :
            (tasks[i].kind = "audio" /\ tasks[i].pc # "idle" /\ tasks'[i].pc = "idle")
            => Chunks(context.audioBuffer) \ Chunks(context'.audioBuffer)
                  \subseteq Chunks(tasks[i].audio)
       /\ \A i, j \in Slots :
            i # j => Chunks(tasks'[i].audio) \cap Chunks(tasks'[j].audio) = {}]_vars

(***************************************************************************)
(* Turns of one processUserInput call (under Spec)                         *)
(***************************************************************************)
\* what follows a speech: the handler returns, or the action chains another
Ending == {"return", "notfound", "interaction_warning", "confirmed"}
Chaining == {"verified", "no_interactions", "check_complete"}

\* the step pushed one assistant turn and went on to speak it
SpeaksOnce(i) ==
    /\ context'.history # <<>>
    /\ context'.history[Len(context'.history)].role = "assistant"
    /\ context'.history = Push(context.history, context'.history[Len(context'.history)])
    /\ "transcript_assistant" \in outbox'
    /\ tasks'[i].pc = "tts"

\* the step pushed nothing
Silent ==
    /\ context'.history = context.history
    /\ "transcript_assistant" \notin outbox' /\ "transcript_user" \notin outbox'

\* C34: a call of processUserInput pushes one user turn when it starts; from
\* then on every step of the handler either waits for another collaborator
\* without a word or pushes exactly one assistant turn and speaks it, whatever
\* the collaborator answered; the handler returns only at the end of a speech,
\* and after a speech it goes on only where the action chains another
\* (verify_patient with list_prescriptions, check_interactions with
\* process_refill), which ends after its own one turn.
OneTurnPerAction ==
    [][\A i \in Slots :
          /\ (tasks[i].pc = "idle" /\ tasks'[i].kind = "text")
             => /\ context'.history =
                      Push(context.history, Turn("user", tasks'[i].input, 0))
                /\ outbox' = {"transcript_user"}
                /\ tasks'[i].pc = "intent"
          /\ (tasks[i].kind = "text" /\ tasks[i].pc \in AwaitPoints \ {"tts"}
                /\ tasks'[i] # tasks[i])
             => \/ Silent /\ tasks'[i].pc \in AwaitPoints \ {"tts", "intent"}
                \/ SpeaksOnce(i)
          /\ (tasks[i].kind = "text" /\ tasks[i].pc = "tts" /\ tasks'[i] # tasks[i])
             => /\ tasks[i].next \in Ending \cup Chaining
                /\ tasks[i].next \in Ending => Silent /\ tasks'[i].pc = "idle"
                /\ tasks[i].next \in Chaining
                      => \/ Silent /\ tasks'[i].pc \in {"db_list", "commit"}
                         \/ SpeaksOnce(i) /\ tasks'[i].next \in Ending
          /\ (tasks[i].kind = "text" /\ tasks[i].pc \in {"db_list", "commit"}
                /\ tasks'[i] # tasks[i])
             => SpeaksOnce(i) /\ tasks'[i].next \in Ending]_vars

\* a verify_patient turn that has said "found your account", has fired
\* patient_verified (which PRESCRIPTION_REVIEW does not map) and now says the
\* list: the second assistant turn of a chained action
OneTurnPerActionWitness ==
    \E i \in Slots :
        /\ tasks[i].kind = "text" /\ tasks[i].pc = "tts" /\ tasks[i].next = "return"
        /\ LastTurn.msg = "prescription_list"
        /\ LastTurn.role = "assistant"
        /\ context.patient # 0
        /\ state = "error"

(***************************************************************************)
(* Connections (under SpecOwner)                                           *)
(***************************************************************************)
\* a message that carries the id of the live session arrives on a connection
\* other than the one the session was started on; handleMessage passes the
\* connection and the id to the same handlers, which look the session up by
\* the id alone
ForeignArrives == live /\ \E c \in Conns : c # ws

ForeignStart == live /\ \E c \in Conns : c # ws /\ StartSessionOn(c)

ForeignTextInput == ForeignArrives /\ SayNext

ForeignAudioChunk == ForeignArrives /\ AudioChunk

ForeignEndSession == ForeignArrives /\ EndSession

NextOwner ==
    \/ ForeignStart
    \/ ForeignTextInput
    \/ ForeignAudioChunk
    \/ ForeignEndSession
    \/ StartSession
    \/ SayNext
    \/ AudioChunk
    \/ EndSession
    \/ IntentDoneContract
    \/ GenDone
    \/ TtsDone

SpecOwner == Init /\ [][NextOwner]_vars

\* C35 as stated: a start_session, text_input, audio_chunk or end_session that
\* arrives on another connection leaves the session object, its connection
\* and its entry in the map as they are.
OwnerOnly ==
    [][(ForeignStart \/ ForeignTextInput \/ ForeignAudioChunk \/ ForeignEndSession)
       => UNCHANGED <<sessionObject, live>>]_vars

(***************************************************************************)
(* After the removal (under SpecRegistry)                                  *)
(***************************************************************************)
\* C36 as stated: while the session is not in the map no step pushes a turn,
\* sends a transcript or an audio notification, or writes the prescriptions
\* table.
RemovedSessionSilent ==
    [][(~live /\ ~live')
       => /\ context'.history = context.history
          /\ outbox' \cap {"transcript_user", "transcript_assistant", "audio_response"} = {}
          /\ db' = db]_vars

(***************************************************************************)
(* What the classifier's intents can reach                                 *)
(***************************************************************************)
\* the events verifyPatient, checkInteractions and processRefill fire themselves
OrchestratorEvents ==
    {"patient_verified", "patient_not_found", "no_interactions", "check_complete",
     "confirmed"}

\* the states transition() gives from the states of R with the classifier's
\* intents and the orchestrator's events, taken in any state and any order
RECURSIVE ReachFrom(_)
ReachFrom(R) ==
    LET N == R \cup {transition(s, e, InitContext).state :
                        s \in R, e \in ClassifierIntents \cup OrchestratorEvents}
    IN IF N = R THEN R ELSE ReachFrom(N)

\* C37 as stated: each of DATE_OF_BIRTH, PRESCRIPTION_SELECTION and COMPLETED
\* (as the state transition() is called with) is among the states reached from
\* GREETING with these events.
RefillPathReachable ==
    smCur \in {"date_of_birth", "prescription_selection", "completed"}
        => smCur \in ReachFrom({"greeting"})

(***************************************************************************)
(* The end of a speech (under SpecSpeak)                                   *)
(***************************************************************************)
\* The dialogue of SpecAudio with a synthesiser that answers every request,
\* with audio or with a failure, and the microtask of handleAudioChunk run.
SpecSpeak ==
    /\ Init /\ [][NextAudio]_vars
    /\ WF_vars(TtsDone) /\ WF_vars(AudioChunkAppend)

\* C38: after speaking_status(true) was sent, speaking_status(false) is sent
\* at some later step that leaves isSpeaking false.  The step that ends a
\* synthesis sends speaking_status(false) whether or not audio came back; a
\* failed synthesis sends no audio and takes nothing from the history; and the
\* step that sent the assistant transcript had pushed the turn and started the
\* speech.
SpeakingEnds ==
    /\ ("speaking_status_true" \in outbox)
          ~> ("speaking_status_false" \in outbox /\ ~context.isSpeaking)
    /\ [][/\ \A i \in Slots :
               /\ (tasks[i].pc = "tts" /\ tasks'[i] # tasks[i])
                  => /\ "speaking_status_false" \in outbox'
                     /\ ~context'.isSpeaking
               /\ (Resumes(i, "tts") /\ Apply(i, afterTts(View(i), FALSE)))
                  => /\ "audio_response" \notin outbox'
                     /\ context'.history = context.history
          /\ "transcript_assistant" \in outbox'
               => /\ "speaking_status_true" \in outbox'
                  /\ context'.history # <<>>
                  /\ context'.history[Len(context'.history)].role = "assistant"]_vars

\* a speech that followed an assistant turn has ended without audio
SpeakingEndsWitness ==
    /\ "speaking_status_false" \in outbox
    /\ "audio_response" \notin outbox
    /\ ~context.isSpeaking
    /\ context.history # <<>>
    /\ LastTurn.role = "assistant"
    /\ Busy = {}

(***************************************************************************)
(* The refill of the voice flow (under Spec)                               *)
(***************************************************************************)
\* the step pushed the assistant turn msg
Says(msg) ==
    /\ "transcript_assistant" \in outbox'
    /\ context'.history # <<>>
    /\ context'.history[Len(context'.history)] = Turn("assistant", msg, 0)

\* C39: a step says the refill confirmation exactly when it is the step in
\* which a processRefill call sees its UPDATE succeed, and the table changes
\* in no other step; that step takes exactly one refill from the selected
\* prescription and nothing else from the table.  processRefill runs in
\* CONFIRMATION; after the confirmation is spoken the state is COMPLETED; when
\* processRefill fails, before or in the UPDATE, it says so, leaves the table
\* alone and ends with the state still CONFIRMATION.
ConfirmationIffDecrement ==
    [][/\ Says("refill_confirmation")
            <=> \E i \in Slots :
                    Resumes(i, "commit") /\ Apply(i, afterCommit(View(i), TRUE))
       /\ db' # db => Says("refill_confirmation")
       /\ \A i \in Slots :
            /\ (Resumes(i, "commit") /\ Apply(i, afterCommit(View(i), TRUE)))
               => /\ tasks[i].rx = context.selectedPrescription
                  /\ db' = [db EXCEPT ![tasks[i].rx] = db[tasks[i].rx] - 1]
                  /\ state = "confirmation" /\ state' = "confirmation"
                  /\ tasks'[i].next = "confirmed"
            /\ (tasks[i].pc = "tts" /\ tasks[i].next = "confirmed"
                  /\ tasks'[i] # tasks[i])
               => state = "confirmation" /\ state' = "completed"
            /\ (Resumes(i, "commit") /\ Apply(i, afterCommit(View(i), FALSE)))
               => Says("refill_failed")
       /\ Says("refill_failed")
            => /\ db' = db
               /\ state' = "confirmation"
               /\ \A i \in Slots : tasks'[i].pc = "tts" => tasks'[i].next = "return"
       /\ \A i \in Slots :
            (tasks[i].pc = "tts" /\ tasks[i].next = "return" /\ tasks'[i] # tasks[i])
            => state' = state /\ db' = db]_vars

\* the refill was confirmed and the row of the selected prescription is one
\* lower than its seed
ConfirmationIffDecrementWitness ==
    /\ state = "completed"
    /\ Busy = {}
    /\ LastTurn.msg = "refill_confirmation"
    /\ context.selectedPrescription # 0
    /\ db[context.selectedPrescription] = SeedRefills[context.selectedPrescription] - 1

(***************************************************************************)
(* The two availability filters (under SpecAvail)                          *)
(***************************************************************************)
\* expiry dates and clock readings, in milliseconds, and refills_remaining
\* (below zero after an overdrawn refill)
MaxDate == 3
MaxRefills == 2

\* listPrescriptions: expiresDate > now && rx.refills_remaining > 0
voiceAvailable(expires, clock, refills) == expires > clock /\ refills > 0

\* GET /:patientId: expired if expiresDate < now, else noRefills if
\* refills_remaining <= 0, else available
restCategory(expires, clock, refills) ==
    IF expires < clock THEN "expired"
    ELSE IF refills <= 0 THEN "noRefills"
    ELSE "available"

InitAvail ==
    /\ smCur = "greeting" /\ smEvt = "unclear" /\ smCtx = InitContext
    /\ smRes = NoResult
    /\ live = FALSE
    /\ state = "greeting"
    /\ context = InitContext
    /\ tasks = [i \in Slots |-> Idle]
    /\ micro = 0
    /\ db = SeedRefills
    /\ rest = [j \in RestSlots |-> RestIdle]
    /\ outbox = {}
    /\ nUtt = 0
    /\ nChunks = 0
    /\ applied = 0
    /\ now = 0
    /\ window = HistWindow
    /\ lastActivity = 0
    /\ peer = NoPeer
    /\ ws = 0
    /\ script = 0
    /\ \E e \in 0..MaxDate, c \in 0..MaxDate, r \in -1..MaxRefills :
          listing = [NoListing EXCEPT !.expires = e, !.clock = c, !.refills = r]

\* the same row at the same instant put to both filters
ListBoth ==
    /\ listing.voice = "none"
    /\ listing' = [listing EXCEPT
          !.voice = IF voiceAvailable(listing.expires, listing.clock, listing.refills)
                    THEN "available" ELSE "absent",
          !.rest = restCategory(listing.expires, listing.clock, listing.refills)]
    /\ UNCHANGED <<smVars, sessVars, db, rest>>

NextAvail == ListBoth

SpecAvail == InitAvail /\ [][NextAvail]_vars

\* C40 as stated: each filter calls the row available exactly when it has not
\* expired (expiry date > now) and has refills left, so the two agree.
FiltersAgree ==
    listing.voice # "none" =>
        LET selectable == listing.expires > listing.clock /\ listing.refills > 0 IN
        /\ listing.voice = "available" <=> selectable
        /\ listing.rest = "available" <=> selectable
        /\ listing.voice = "available" <=> listing.rest = "available"

====
